---- MODULE Spec2Model ----
(***************************************************************************)
(* A model of md2html.py: the document splitter, the inline [red+] markup  *)
(* resolver, the paragraph splitter, the tag-block scanner, the tag        *)
(* renderer and the table-of-contents builder.                             *)
(*                                                                         *)
(* Strings are sequences of one-character strings.  Positions are Python's *)
(* 0-based offsets, so s[a:z] is Slice(s, a, z).                           *)
(*                                                                         *)
(* Spec is build_html from the document to body_html, one step per pass    *)
(* through each of its loops and of the loops of the functions it calls.   *)
(* SpecToc is the second half of build_toc, from the list of headings to   *)
(* the navigation markup.                                                  *)
(***************************************************************************)
EXTENDS Integers, Sequences, FiniteSets, TLC

VARIABLES
    pc,               \* position of the run
    md_text,          \* build_html: the document
    blocks,           \* build_html: what split_by_hash_blocks returned
    body_html_parts,  \* build_html: the sections rendered so far
    body_html,        \* build_html: the sections joined
    b,                \* build_html: the body of the block being rendered
    idx,              \* find_tag_blocks: the scan position
    res,              \* find_tag_blocks: the nodes emitted so far
    ni,               \* render_tag_sequence: how many nodes the loop has taken
    out,              \* render_tag_sequence: the fragments rendered so far
    sub,              \* render_tag_sequence: the nested scan of the last Smain
    content_html,     \* build_html: the rendered block
    toc,              \* build_toc: the levels of the headings collected
    ti,               \* build_toc: the loop index i
    toc_html,         \* build_toc: the navigation fragments
    last_level,       \* build_toc
    stack             \* build_toc: a list of references to toc_html

vars == <<pc, md_text, blocks, body_html_parts, body_html, b, idx, res, ni, out,
          sub, content_html, toc, ti, toc_html, last_level, stack>>

----------------------------------------------------------------------------
(* Strings *)

Min(S) == CHOOSE x \in S : \A y \in S : x <= y
Max(S) == CHOOSE x \in S : \A y \in S : x >= y

Slice(s, a, z) == SubSeq(s, a + 1, z)

StartsAt(s, p, w) == p + Len(w) <= Len(s) /\ SubSeq(s, p + 1, p + Len(w)) = w

\* re.search of a literal w in s from offset from: the offset, or -1
Find(s, w, from) ==
    LET P == {p \in from .. (Len(s) - Len(w)) : StartsAt(s, p, w)}
    IN  IF P = {} THEN -1 ELSE Min(P)

Contains(s, w) == Find(s, w, 0) >= 0

RECURSIVE Concat(_)
Concat(ss) == IF ss = <<>> THEN <<>> ELSE Head(ss) \o Concat(Tail(ss))

\* sep.join(ss)
RECURSIVE Join(_, _)
Join(sep, ss) ==
    IF ss = <<>> THEN <<>>
    ELSE IF Len(ss) = 1 THEN ss[1]
    ELSE ss[1] \o sep \o Join(sep, Tail(ss))

Whitespace == {" ", "\t", "\n", "\r", "\f"}

IsBlank(s) == \A k \in 1 .. Len(s) : s[k] \in Whitespace

\* str.strip()
Strip(s) ==
    LET N == {k \in 1 .. Len(s) : s[k] \notin Whitespace}
    IN  IF N = {} THEN <<>> ELSE SubSeq(s, Min(N), Max(N))

\* str.rstrip()
RStrip(s) ==
    LET N == {k \in 1 .. Len(s) : s[k] \notin Whitespace}
    IN  IF N = {} THEN <<>> ELSE SubSeq(s, 1, Max(N))

\* str.splitlines(), for the line break "\n"
RECURSIVE SplitLines(_)
SplitLines(s) ==
    IF s = <<>> THEN <<>>
    ELSE LET n == Find(s, <<"\n">>, 0)
         IN  IF n < 0 THEN <<s>>
             ELSE <<Slice(s, 0, n)>> \o SplitLines(Slice(s, n + 1, Len(s)))

\* the letters; every other character is its own lower case
Lower(c) ==
    CASE c = "A" -> "a" [] c = "B" -> "b" [] c = "C" -> "c" [] c = "D" -> "d" [] c = "E" -> "e"
      [] c = "F" -> "f" [] c = "G" -> "g" [] c = "H" -> "h" [] c = "I" -> "i" [] c = "J" -> "j"
      [] c = "K" -> "k" [] c = "L" -> "l" [] c = "M" -> "m" [] c = "N" -> "n" [] c = "O" -> "o"
      [] c = "P" -> "p" [] c = "Q" -> "q" [] c = "R" -> "r" [] c = "S" -> "s" [] c = "T" -> "t"
      [] c = "U" -> "u" [] c = "V" -> "v" [] c = "W" -> "w" [] c = "X" -> "x" [] c = "Y" -> "y"
      [] c = "Z" -> "z"
      [] OTHER -> c

\* str.lower()
LowerStr(s) == [k \in 1 .. Len(s) |-> Lower(s[k])]

----------------------------------------------------------------------------
(* escape: html.escape(s), quote=True *)

EscapeChar(c) ==
    CASE c = "&"  -> <<"&", "a", "m", "p", ";">>
      [] c = "<"  -> <<"&", "l", "t", ";">>
      [] c = ">"  -> <<"&", "g", "t", ";">>
      [] c = "\"" -> <<"&", "q", "u", "o", "t", ";">>
      [] c = "'"  -> <<"&", "#", "x", "2", "7", ";">>
      [] OTHER    -> <<c>>

RECURSIVE escape(_)
escape(s) == IF s = <<>> THEN <<>> ELSE EscapeChar(Head(s)) \o escape(Tail(s))

----------------------------------------------------------------------------
(* red_replace: re.sub(r'\[red\+\](.*?)\[red-\]', <span class="red">escape</span>) *)

RedOpen   == <<"[", "r", "e", "d", "+", "]">>
RedClose  == <<"[", "r", "e", "d", "-", "]">>
SpanOpen  == <<"<", "s", "p", "a", "n", " ", "c", "l", "a", "s", "s", "=", "\"", "r", "e", "d", "\"", ">">>
SpanClose == <<"<", "/", "s", "p", "a", "n", ">">>

\* The leftmost [red+] is paired with the first [red-] after it (.*? is
\* non-greedy and, under re.S, crosses lines); the scan resumes after the pair.
RECURSIVE red_replace(_)
red_replace(text) ==
    LET o == Find(text, RedOpen, 0)
        c == IF o < 0 THEN -1 ELSE Find(text, RedClose, o + Len(RedOpen))
    IN  IF c < 0 THEN text
        ELSE Slice(text, 0, o)
             \o SpanOpen \o escape(Slice(text, o + Len(RedOpen), c)) \o SpanClose
             \o red_replace(Slice(text, c + Len(RedClose), Len(text)))

----------------------------------------------------------------------------
(* paragraphize, render_paragraphs *)

\* the loop of paragraphize over the lines: cur is the paragraph being built
RECURSIVE ParaLoop(_, _, _)
ParaLoop(lines, cur, paragraphs) ==
    IF lines = <<>>
    THEN IF cur # <<>> THEN Append(paragraphs, Join(<<" ">>, cur)) ELSE paragraphs
    ELSE LET ln == Head(lines)
         IN  IF IsBlank(ln)
             THEN IF cur # <<>>
                  THEN ParaLoop(Tail(lines), <<>>, Append(paragraphs, Join(<<" ">>, cur)))
                  ELSE ParaLoop(Tail(lines), cur, paragraphs)
             ELSE ParaLoop(Tail(lines), Append(cur, RStrip(ln)), paragraphs)

paragraphize(text) == ParaLoop(SplitLines(Strip(text)), <<>>, <<>>)

POpen  == <<"<", "p", ">">>
PClose == <<"<", "/", "p", ">">>

\* render_paragraphs, were it to escape every paragraph
render_paragraphs_escaping(text) ==
    LET paras == paragraphize(red_replace(text))
    IN  Join(<<"\n">>, [k \in 1 .. Len(paras) |-> POpen \o escape(paras[k]) \o PClose])

\* "\n".join(f"<p>{p}</p>" for p in paragraphize(red_replace(text)))
render_paragraphs(text) ==
    LET paras == paragraphize(red_replace(text))
    IN  Join(<<"\n">>, [k \in 1 .. Len(paras) |-> POpen \o paras[k] \o PClose])

----------------------------------------------------------------------------
(* find_tag_blocks *)

TagChar ==
    {"a", "b", "c", "d", "e", "f", "g", "h", "i", "j", "k", "l", "m", "n", "o",
     "p", "q", "r", "s", "t", "u", "v", "w", "x", "y", "z",
     "A", "B", "C", "D", "E", "F", "G", "H", "I", "J", "K", "L", "M", "N", "O",
     "P", "Q", "R", "S", "T", "U", "V", "W", "X", "Y", "Z",
     "0", "1", "2", "3", "4", "5", "6", "7", "8", "9", "_", "+", "-"}

CloseMark == <<"[", "-", "]">>
TextType  == <<"t", "e", "x", "t">>

\* the offset just past the run of tag characters that starts at offset q
TagRunEnd(s, q) ==
    Max({e \in q .. Len(s) : \A k \in (q + 1) .. e : s[k] \in TagChar})

\* tag_pattern r'\[([A-Za-z0-9_+-]+)\]' matches at offset p
TagMatchAt(s, p) ==
    /\ p < Len(s)
    /\ s[p + 1] = "["
    /\ LET e == TagRunEnd(s, p + 1)
       IN  e > p + 1 /\ e < Len(s) /\ s[e + 1] = "]"

\* tag_pattern.search(s, idx): the match's start, or -1
tag_search(s, from) ==
    LET P == {p \in from .. (Len(s) - 1) : TagMatchAt(s, p)}
    IN  IF P = {} THEN -1 ELSE Min(P)

Node(t, c) == [type |-> t, content |-> c]

\* close_search, were it to take the last [-] of s rather than the first
close_search_last(s, from) ==
    Max({k \in from .. Len(s) : StartsAt(s, k, CloseMark)} \cup {-1})

\* close_pat.search(s, from): the start of the first [-] at or after from, or -1
close_search(s, from) == Find(s, CloseMark, from)

\* TagContent, were the interior kept untrimmed
TagContent_untrimmed(s, from, to) == Slice(s, from, to)

\* the content of a tag: s[from:to].strip()
TagContent(s, from, to) == Strip(Slice(s, from, to))

\* UnterminatedIdx, were the position left where it was
UnterminatedIdx_unmoved(s, i) == i

\* where the scan resumes after a tag that has no closing marker: idx = len(s)
UnterminatedIdx(s, i) == Len(s)

\* One pass through the body of the while loop, from position i with the nodes
\* r emitted so far: the new position, the new nodes, and whether it broke out.
FindIter(s, i, r) ==
    LET start == tag_search(s, i)
    IN  IF start < 0
        THEN LET tail == Strip(Slice(s, i, Len(s)))
             IN  [idx |-> i,
                  res |-> IF tail # <<>> THEN Append(r, Node(TextType, tail)) ELSE r,
                  brk |-> TRUE]
        ELSE LET mend   == TagRunEnd(s, start + 1) + 1
                 tag    == Slice(s, start + 1, mend - 1)
                 before == Strip(Slice(s, i, start))
                 r1     == IF start > i /\ before # <<>>
                           THEN Append(r, Node(TextType, before)) ELSE r
                 cm     == close_search(s, mend)
             IN  IF cm < 0
                 THEN [idx |-> UnterminatedIdx(s, i),
                       res |-> Append(r1, Node(tag, TagContent(s, mend, Len(s)))),
                       brk |-> FALSE]
                 ELSE [idx |-> cm + Len(CloseMark),
                       res |-> Append(r1, Node(tag, TagContent(s, mend, cm))),
                       brk |-> FALSE]

RECURSIVE FindLoop(_, _, _)
FindLoop(s, i, r) ==
    IF i < Len(s)
    THEN LET st == FindIter(s, i, r)
         IN  IF st.brk THEN st.res ELSE FindLoop(s, st.idx, st.res)
    ELSE r

find_tag_blocks(section_text) == FindLoop(section_text, 0, <<>>)

----------------------------------------------------------------------------
(* json.loads: the library's result for each payload text the model draws. *)
(* A JSON value is a record tagged by k; an object's v maps its keys.       *)

JErr     == [k |-> "error"]   \* json.loads raises JSONDecodeError
JNull    == [k |-> "null"]
JNum(n)  == [k |-> "num", v |-> n]
JStr(s)  == [k |-> "str", v |-> s]
JList(l) == [k |-> "list", v |-> l]
JObj(f)  == [k |-> "obj", v |-> f]
JEmpty   == JObj(<<>>)

Raw_truncated == <<"{", "\"", "i", "m", "g", "\"", ":">>
Raw_markup == <<"<", "b", ">", "&">>
Raw_num == <<"5">>
Raw_list == <<"[", "1", "]">>
Raw_null == <<"n", "u", "l", "l">>
Raw_str == <<"\"", "s", "\"">>
Raw_emptyObj == <<"{", "}">>
Raw_imgStr == <<"{", "\"", "i", "m", "g", "\"", ":", "\"", "x", "\"", "}">>
Raw_imgNull == <<"{", "\"", "i", "m", "g", "\"", ":", "n", "u", "l", "l", "}">>
Raw_pathNum ==
    <<"{", "\"", "i", "m", "g", "\"", ":", "{", "\"", "p", "a", "t", "h", "\"", ":", "5", "}",
      "}">>
Raw_txtNull == <<"{", "\"", "t", "x", "t", "\"", ":", "n", "u", "l", "l", "}">>
Raw_card ==
    <<"{", "\"", "i", "m", "g", "\"", ":", "{", "\"", "p", "a", "t", "h", "\"", ":", "\"", "p",
      "\"", "}", ",", "\"", "t", "x", "t", "\"", ":", "\"", "&", "\"", "}">>
Raw_img1Num == <<"{", "\"", "i", "m", "g", "1", "\"", ":", "5", "}">>
Raw_txt1Num == <<"{", "\"", "t", "x", "t", "1", "\"", ":", "5", "}">>
Raw_banner ==
    <<"{", "\"", "i", "m", "g", "1", "\"", ":", "{", "\"", "p", "a", "t", "h", "\"", ":", "\"",
      "p", "\"", "}", ",", "\"", "i", "m", "g", "2", "\"", ":", "{", "\"", "p", "a", "t", "h",
      "\"", ":", "\"", "q", "\"", "}", ",", "\"", "t", "x", "t", "1", "\"", ":", "\"", "&", "\"",
      ",", "\"", "t", "x", "t", "2", "\"", ":", "\"", "u", "\"", "}">>


JsonTable ==
    {[raw |-> <<>>,          parsed |-> JErr],
     [raw |-> Raw_truncated, parsed |-> JErr],
     [raw |-> Raw_num,       parsed |-> JNum(5)],
     [raw |-> Raw_list,      parsed |-> JList(<<JNum(1)>>)],
     [raw |-> Raw_null,      parsed |-> JNull],
     [raw |-> Raw_str,       parsed |-> JStr(<<"s">>)],
     [raw |-> Raw_markup,    parsed |-> JErr],
     [raw |-> Raw_emptyObj,  parsed |-> JEmpty],
     [raw |-> Raw_imgStr,    parsed |-> JObj([img |-> JStr(<<"x">>)])],
     [raw |-> Raw_imgNull,   parsed |-> JObj([img |-> JNull])],
     [raw |-> Raw_pathNum,   parsed |-> JObj([img |-> JObj([path |-> JNum(5)])])],
     [raw |-> Raw_txtNull,   parsed |-> JObj([txt |-> JNull])],
     [raw |-> Raw_card,      parsed |-> JObj([img |-> JObj([path |-> JStr(<<"p">>)]),
                                              txt |-> JStr(<<"&">>)])],
     [raw |-> Raw_img1Num,   parsed |-> JObj([img1 |-> JNum(5)])],
     [raw |-> Raw_txt1Num,   parsed |-> JObj([txt1 |-> JNum(5)])],
     [raw |-> Raw_banner,    parsed |-> JObj([img1 |-> JObj([path |-> JStr(<<"p">>)]),
                                              img2 |-> JObj([path |-> JStr(<<"q">>)]),
                                              txt1 |-> JStr(<<"&">>),
                                              txt2 |-> JStr(<<"u">>)])]}

InTable(text) == \E p \in JsonTable : p.raw = text

\* Texts outside the table are never given to the renderers (PayloadsKnown).
json_loads(text) ==
    IF InTable(text) THEN (CHOOSE p \in JsonTable : p.raw = text).parsed ELSE JErr

\* dict.get(key, default)
Get(obj, key, default) == IF key \in DOMAIN obj.v THEN obj.v[key] ELSE default

\* Python's truth value of a JSON value, for `x or {}`
Falsy(j) ==
    \/ j.k = "null"
    \/ j.k = "num" /\ j.v = 0
    \/ j.k \in {"str", "list", "obj"} /\ j.v = <<>>

OrEmpty(j) == IF Falsy(j) THEN JEmpty ELSE j

\* The result of a call: the string returned, or the exception that left it.
Ok(h)      == [ok |-> TRUE, html |-> h, exc |-> "none"]
Raised(e)  == [ok |-> FALSE, html |-> <<>>, exc |-> e]

----------------------------------------------------------------------------
(* render_bannerT2, render_cardT *)

ErrBannerOpen ==
    <<"<", "d", "i", "v", " ", "c", "l", "a", "s", "s", "=", "\"", "e", "r", "r", "o", "r", "\"",
      ">", "I", "n", "v", "a", "l", "i", "d", " ", "b", "a", "n", "n", "e", "r", "T", "2", " ",
      "J", "S", "O", "N", ":", " ">>
ErrCardOpen ==
    <<"<", "d", "i", "v", " ", "c", "l", "a", "s", "s", "=", "\"", "e", "r", "r", "o", "r", "\"",
      ">", "I", "n", "v", "a", "l", "i", "d", " ", "c", "a", "r", "d", "T", " ", "J", "S", "O",
      "N", ":", " ">>
DivClose == <<"<", "/", "d", "i", "v", ">">>
BannerA ==
    <<"<", "d", "i", "v", " ", "c", "l", "a", "s", "s", "=", "\"", "b", "a", "n", "n", "e", "r",
      "T", "2", "\"", ">", "\n", " ", " ", "<", "d", "i", "v", " ", "c", "l", "a", "s", "s", "=",
      "\"", "b", "a", "n", "n", "e", "r", "-", "i", "t", "e", "m", "\"", ">", "\n", " ", " ",
      " ", " ", "<", "i", "m", "g", " ", "s", "r", "c", "=", "\"">>
AltAttr == <<"\"", " ", "a", "l", "t", "=", "\"">>
BannerC ==
    <<"\"", "/", ">", "\n", " ", " ", " ", " ", "<", "d", "i", "v", " ", "c", "l", "a", "s", "s",
      "=", "\"", "c", "a", "p", "t", "i", "o", "n", "\"", ">">>
BannerD ==
    <<"<", "/", "d", "i", "v", ">", "\n", " ", " ", "<", "/", "d", "i", "v", ">", "\n", " ", " ",
      "<", "d", "i", "v", " ", "c", "l", "a", "s", "s", "=", "\"", "b", "a", "n", "n", "e", "r",
      "-", "i", "t", "e", "m", "\"", ">", "\n", " ", " ", " ", " ", "<", "i", "m", "g", " ", "s",
      "r", "c", "=", "\"">>
BannerG ==
    <<"<", "/", "d", "i", "v", ">", "\n", " ", " ", "<", "/", "d", "i", "v", ">", "\n", "<", "/",
      "d", "i", "v", ">">>
CardA ==
    <<"<", "d", "i", "v", " ", "c", "l", "a", "s", "s", "=", "\"", "c", "a", "r", "d", "T", "\"",
      ">", "\n", " ", " ", "<", "d", "i", "v", " ", "c", "l", "a", "s", "s", "=", "\"", "c", "a",
      "r", "d", "-", "i", "m", "g", "\"", ">", "<", "i", "m", "g", " ", "s", "r", "c", "=", "\"">>
CardC ==
    <<"\"", "/", ">", "<", "/", "d", "i", "v", ">", "\n", " ", " ", "<", "d", "i", "v", " ", "c",
      "l", "a", "s", "s", "=", "\"", "c", "a", "r", "d", "-", "t", "x", "t", "\"", ">">>
CardD == <<"<", "/", "d", "i", "v", ">", "\n", "<", "/", "d", "i", "v", ">">>


\* x.get(...) on a value that is no dict, and escape(x) on one that is no str
\* (html.escape calls x.replace), raise AttributeError.
render_bannerT2(json_text) ==
    LET obj == json_loads(json_text)
    IN  IF obj.k = "error" THEN Ok(ErrBannerOpen \o escape(json_text) \o DivClose)
        ELSE IF obj.k # "obj" THEN Raised("AttributeError")
        ELSE LET img1 == OrEmpty(Get(obj, "img1", JEmpty))
                 img2 == OrEmpty(Get(obj, "img2", JEmpty))
             IN  IF img1.k # "obj" \/ img2.k # "obj" THEN Raised("AttributeError")
                 ELSE LET p1 == Get(img1, "path", JStr(<<>>))
                          p2 == Get(img2, "path", JStr(<<>>))
                          t1 == Get(obj, "txt1", JStr(<<>>))
                          t2 == Get(obj, "txt2", JStr(<<>>))
                      IN  IF \E x \in {p1, p2, t1, t2} : x.k # "str"
                          THEN Raised("AttributeError")
                          ELSE Ok(BannerA \o escape(p1.v) \o AltAttr \o escape(t1.v)
                                  \o BannerC \o escape(t1.v)
                                  \o BannerD \o escape(p2.v) \o AltAttr \o escape(t2.v)
                                  \o BannerC \o escape(t2.v) \o BannerG)

render_cardT(json_text) ==
    LET obj == json_loads(json_text)
    IN  IF obj.k = "error" THEN Ok(ErrCardOpen \o escape(json_text) \o DivClose)
        ELSE IF obj.k # "obj" THEN Raised("AttributeError")
        ELSE LET img == OrEmpty(Get(obj, "img", JEmpty))
             IN  IF img.k # "obj" THEN Raised("AttributeError")
                 ELSE LET p   == Get(img, "path", JStr(<<>>))
                          txt == Get(obj, "txt", JStr(<<>>))
                      IN  IF p.k # "str" \/ txt.k # "str"
                          THEN Raised("AttributeError")
                          ELSE Ok(CardA \o escape(p.v) \o AltAttr \o escape(txt.v)
                                  \o CardC \o escape(txt.v) \o CardD)

----------------------------------------------------------------------------
(* render_tag_sequence *)

SmainH2Open ==
    <<"<", "d", "i", "v", " ", "c", "l", "a", "s", "s", "=", "\"", "s", "m", "a", "i", "n", "\"",
      ">", "<", "h", "2", ">">>
SmainOpen ==
    <<"<", "d", "i", "v", " ", "c", "l", "a", "s", "s", "=", "\"", "s", "m", "a", "i", "n", "\"",
      ">">>
H2Close == <<"<", "/", "h", "2", ">">>
H2DivClose == <<"<", "/", "h", "2", ">", "<", "/", "d", "i", "v", ">">>
MainH2Open ==
    <<"<", "d", "i", "v", " ", "c", "l", "a", "s", "s", "=", "\"", "m", "a", "i", "n", "\"", ">",
      "<", "h", "2", ">">>
H3Open == <<"<", "h", "3", ">">>
H3Close == <<"<", "/", "h", "3", ">">>
H4Open == <<"<", "h", "4", ">">>
H4Close == <<"<", "/", "h", "4", ">">>
T_smain == <<"s", "m", "a", "i", "n">>
T_main == <<"m", "a", "i", "n">>
T_subtitle1 == <<"s", "u", "b", "t", "i", "t", "l", "e", "1">>
T_subtitle2 == <<"s", "u", "b", "t", "i", "t", "l", "e", "2">>
T_bannerT2 == <<"b", "a", "n", "n", "e", "r", "T", "2">>
T_cardT == <<"c", "a", "r", "d", "T">>


\* re.sub(r"\\s+", " ", c): the raw string spells the pattern \\s+, a literal
\* backslash followed by one or more letters s.
RECURSIVE ReSubBackslashS(_)
ReSubBackslashS(c) ==
    LET P == {p \in 0 .. (Len(c) - 2) : c[p + 1] = "\\" /\ c[p + 2] = "s"}
    IN  IF P = {} THEN c
        ELSE LET p == Min(P)
                 e == Max({z \in (p + 2) .. Len(c) : \A k \in (p + 2) .. z : c[k] = "s"})
             IN  Slice(c, 0, p) \o <<" ">> \o ReSubBackslashS(Slice(c, e, Len(c)))

StructuralTypes == {T_subtitle1, T_subtitle2, T_main, T_bannerT2, T_cardT}

\* any(x['type'].lower() in ("subtitle1","subtitle2","main","bannerT2","cardT"))
HasStructuralChild(nodes) ==
    \E k \in 1 .. Len(nodes) : LowerStr(nodes[k].type) \in StructuralTypes

\* the rendering of one child of a container
RenderChild(x) ==
    IF x.type = TextType THEN Ok(render_paragraphs(x.content))
    ELSE IF LowerStr(x.type) = T_subtitle1 THEN Ok(H3Open \o x.content \o H3Close)
    ELSE IF LowerStr(x.type) = T_subtitle2 THEN Ok(H4Open \o x.content \o H4Close)
    ELSE IF x.type = T_bannerT2 THEN render_bannerT2(x.content)
    ELSE IF x.type = T_cardT THEN render_cardT(x.content)
    ELSE IF LowerStr(x.type) = T_main THEN Ok(MainH2Open \o x.content \o H2DivClose)
    ELSE Ok(render_paragraphs(x.content))

\* What rendering appends to out: frags, or the exception that ends the run.
Frags(fs)   == [ok |-> TRUE, frags |-> fs, exc |-> "none"]
FragsExc(e) == [ok |-> FALSE, frags |-> <<>>, exc |-> e]

\* the loop over the children of a container, after the fragments acc
RECURSIVE RenderChildren(_, _)
RenderChildren(nodes, acc) ==
    IF nodes = <<>> THEN Frags(Append(acc, DivClose))
    ELSE LET r == RenderChild(Head(nodes))
         IN  IF r.ok THEN RenderChildren(Tail(nodes), Append(acc, r.html))
             ELSE FragsExc(r.exc)

\* the first node of type 'text', or 0
FirstTextNode(nodes) ==
    LET T == {k \in 1 .. Len(nodes) : nodes[k].type = TextType}
    IN  IF T = {} THEN 0 ELSE Min(T)

\* the Smain branch with the nested scan s of its content c
RenderSmain(c, s) ==
    IF HasStructuralChild(s)
    THEN LET f     == FirstTextNode(s)
             lines == IF f = 0 THEN <<>> ELSE SplitLines(Strip(s[f].content))
         IN  IF f # 0 /\ lines = <<>> THEN FragsExc("IndexError")
             ELSE LET first_text == IF f = 0 THEN <<>> ELSE lines[1]
                      open == IF first_text # <<>>
                              THEN SmainH2Open \o escape(first_text) \o H2Close
                              ELSE SmainOpen
                  IN  RenderChildren(s, <<open>>)
    ELSE Frags(<<SmainH2Open \o escape(ReSubBackslashS(c)) \o H2DivClose>>)

\* the body of the loop of render_tag_sequence for one node
RenderNode(node) ==
    LET t  == node.type
        c  == Strip(node.content)
        lt == LowerStr(t)
    IN  IF lt = T_smain THEN RenderSmain(c, find_tag_blocks(c))
        ELSE IF lt = T_main THEN Frags(<<MainH2Open \o red_replace(c) \o H2DivClose>>)
        ELSE IF lt = T_subtitle1 THEN Frags(<<H3Open \o c \o H3Close>>)
        ELSE IF lt = T_subtitle2 THEN Frags(<<H4Open \o c \o H4Close>>)
        ELSE IF t = T_bannerT2
             THEN LET r == render_bannerT2(c)
                  IN  IF r.ok THEN Frags(<<r.html>>) ELSE FragsExc(r.exc)
        ELSE IF t = T_cardT
             THEN LET r == render_cardT(c)
                  IN  IF r.ok THEN Frags(<<r.html>>) ELSE FragsExc(r.exc)
        ELSE IF t = TextType THEN Frags(<<render_paragraphs(c)>>)
        ELSE Frags(<<render_paragraphs(<<"[">> \o t \o <<"]">> \o c \o CloseMark)>>)

----------------------------------------------------------------------------
(* split_by_hash_blocks *)

SecNoHashOpen ==
    <<"<", "s", "e", "c", "t", "i", "o", "n", " ", "c", "l", "a", "s", "s", "=", "\"", "n", "o",
      "-", "h", "a", "s", "h", "\"", ">">>
SecClose == <<"<", "/", "s", "e", "c", "t", "i", "o", "n", ">">>
SecIdOpen == <<"<", "s", "e", "c", "t", "i", "o", "n", " ", "i", "d", "=", "\"">>
SecIdMid ==
    <<"\"", " ", "c", "l", "a", "s", "s", "=", "\"", "h", "a", "s", "h", "-", "b", "l", "o", "c",
      "k", "\"", ">", "<", "h", "1", ">", "h", "a", "s", "h", ":", " ">>
H1Close == <<"<", "/", "h", "1", ">">>
HashesLit == <<"#", "#", "#">>
HashKeyword == <<"h", "a", "s", "h", ":">>


\* the offset just past the run of whitespace that starts at offset q
SkipSpace(s, q) ==
    Max({q} \cup {e \in q .. Len(s) : \A k \in (q + 1) .. e : s[k] \in Whitespace})

\* the offset just past the run of non-whitespace that starts at offset q
SkipNonSpace(s, q) ==
    Max({q} \cup {e \in q .. Len(s) : \A k \in (q + 1) .. e : s[k] \notin Whitespace})

\* ^ and $ under re.M
LineStart(s, p) == p = 0 \/ s[p] = "\n"
LineEnd(s, p)   == p = Len(s) \/ s[p + 1] = "\n"

\* r'^\s*###\s*hash:\s*(\S+)\s*$' tried at offset p: whether it matches, the
\* token's span and the match's end.  Each \s* and the \S+ can only take its
\* whole run, but the last \s*, which gives back as far as the last line end.
HashMatch(s, p) ==
    LET q1   == SkipSpace(s, p)
        q3   == SkipSpace(s, q1 + Len(HashesLit))
        q5   == SkipSpace(s, q3 + Len(HashKeyword))
        q6   == SkipNonSpace(s, q5)
        q7   == SkipSpace(s, q6)
        ends == {e \in q6 .. q7 : LineEnd(s, e)}
        ok   == /\ LineStart(s, p)
                /\ StartsAt(s, q1, HashesLit)
                /\ StartsAt(s, q3, HashKeyword)
                /\ q6 > q5
                /\ ends # {}
    IN  [ok |-> ok, start |-> p, gs |-> q5, ge |-> q6,
         end |-> IF ok THEN Max(ends) ELSE p]

\* pattern.finditer(md_text) from offset from: the matches, left to right
RECURSIVE HashMatches(_, _)
HashMatches(s, from) ==
    LET P == {p \in from .. Len(s) : HashMatch(s, p).ok}
    IN  IF P = {} THEN <<>>
        ELSE LET m == HashMatch(s, Min(P))
             IN  <<m>> \o HashMatches(s, m.end)

\* hash = None
None == <<"None">>

Block(h, body) == [hash |-> h, body |-> body]

\* h[:7]
Take7(h) == SubSeq(h, 1, IF Len(h) < 7 THEN Len(h) ELSE 7)

\* the blocks collected by the loop over the matches, before the return
CollectBlocks(md, matches) ==
    LET pre  == Strip(Slice(md, 0, matches[1].start))
        lead == IF matches[1].start > 0 /\ pre # <<>> THEN <<Block(None, pre)>> ELSE <<>>
        body(i) == Strip(Slice(md, matches[i].end,
                               IF i + 1 <= Len(matches) THEN matches[i + 1].start
                               ELSE Len(md)))
    IN  lead \o [i \in 1 .. Len(matches) |->
                    Block(Take7(Slice(md, matches[i].gs, matches[i].ge)), body(i))]

Reverse(s) == [k \in 1 .. Len(s) |-> s[Len(s) - k + 1]]

\* blocks[1:][::-1]
DropFirstReversed(bs) == Reverse(SubSeq(bs, 2, Len(bs)))

split_by_hash_blocks(md) ==
    LET matches == HashMatches(md, 0)
    IN  IF matches = <<>> THEN <<Block(None, md)>>
        ELSE DropFirstReversed(CollectBlocks(md, matches))

----------------------------------------------------------------------------
(* The documents the runs start from *)

MaxLen     == 4   \* longest body drawn from ScanAlphabet
MaxContent == 3   \* longest interior of a [tag]content[-] span
MaxPieces  == 4   \* most markup pieces in a body
MaxLines   == 3   \* most lines in a document of LinePieces

\* all strings over A of length at most n
Strs(A, n) == UNION {[1 .. k -> A] : k \in 0 .. n}

ScanAlphabet == {"[", "]", "-", "a", " "}

ScanBodies == Strs(ScanAlphabet, MaxLen)

Bracket(t) == <<"[">> \o t \o <<"]">>

\* [tag]content[-] with no opening marker and no [-] in the content
SpanTags == {<<"a">>, <<"-">>, <<"A", "_">>, <<"+", "1">>, TextType, <<"S", "m", "a", "i", "n">>}

HasMarker(c) == tag_search(c, 0) >= 0 \/ Contains(c, CloseMark)

SpanContents == {c \in Strs(ScanAlphabet, MaxContent) : ~HasMarker(c)}

SpanBodies == {Bracket(t) \o c \o CloseMark : t \in SpanTags, c \in SpanContents}

\* free sequences of markup pieces: nested and unbalanced markers included
Pieces == {Bracket(<<"S", "m", "a", "i", "n">>), Bracket(<<"x">>), CloseMark,
           RedOpen, RedClose, <<"&">>, <<"\n">>}

PieceBodies == {Concat(ps) : ps \in Strs(Pieces, MaxPieces)}

\* one tag with a payload or a text, alone or inside a section
TagPrefixes == {<<>>, Bracket(<<"S", "m", "a", "i", "n">>),
                Bracket(<<"S", "m", "a", "i", "n">>) \o <<"t", "\n", "u", " ">>}

PayloadTags == {T_cardT, T_bannerT2, T_subtitle1, T_subtitle2, T_main,
                <<"M", "a", "i", "n">>, <<"x">>}

Payloads == {p.raw : p \in JsonTable}

TagBodies ==
    {pre \o Bracket(t) \o p \o CloseMark :
        pre \in TagPrefixes, t \in PayloadTags, p \in Payloads}

Bodies == ScanBodies \cup SpanBodies \cup PieceBodies \cup TagBodies

L_abc ==
    <<"#", "#", "#", " ", "h", "a", "s", "h", ":", " ", "a", "b", "c", "1", "2", "3", "4", "\n">>
L_def ==
    <<"#", "#", "#", " ", "h", "a", "s", "h", ":", " ", "d", "e", "f", "5", "6", "7", "8", "\n">>
L_long ==
    <<" ", " ", "#", "#", "#", "h", "a", "s", "h", ":", "0", "1", "2", "3", "4", "5", "6", "7",
      "8", "9", " ", "\n">>
L_hdr == <<"#", "#", "#", " ", "h", "a", "s", "h", ":", " ", "h", "\n">>
L_text == <<"x", "\n">>
L_blank == <<"\n">>
L_main == <<"[", "m", "a", "i", "n", "]", "&", "[", "-", "]", "\n">>
L_card == <<"[", "c", "a", "r", "d", "T", "]", "5", "[", "-", "]", "\n">>

\* a document of one block: a line of text, a header line, the body
BodyDocuments == {L_text \o L_hdr \o body : body \in Bodies}

\* documents of header lines, text lines and blank lines
LinePieces == {L_abc, L_def, L_long, L_text, L_blank, L_main, L_card}

LineDocuments == {Concat(ls) : ls \in Strs(LinePieces, MaxLines)}

Documents == LineDocuments \cup BodyDocuments

----------------------------------------------------------------------------
(* Spec: build_html, lines 298-310 *)

Init ==
    /\ md_text \in Documents
    /\ pc = "split"
    /\ blocks = <<>> /\ body_html_parts = <<>> /\ body_html = <<>>
    /\ b = <<>> /\ idx = 0 /\ res = <<>> /\ ni = 0 /\ out = <<>> /\ sub = <<>>
    /\ content_html = <<>>
    /\ toc = <<>> /\ ti = 0 /\ toc_html = <<>> /\ last_level = 0 /\ stack = <<>>

TocVars == <<toc, ti, toc_html, last_level, stack>>

\* the block the loop of build_html is at
blk == blocks[Len(body_html_parts) + 1]

\* blocks = split_by_hash_blocks(md_text)
SplitDocument ==
    /\ pc = "split"
    /\ blocks' = split_by_hash_blocks(md_text)
    /\ pc' = "block"
    /\ UNCHANGED <<md_text, body_html_parts, body_html, b, idx, res, ni, out, sub,
                   content_html, TocVars>>

\* the loop takes the next block: b = red_replace(blk["body"]); with a hash,
\* find_tag_blocks(b) begins
RedReplaceBody ==
    /\ pc = "block"
    /\ Len(body_html_parts) < Len(blocks)
    /\ b' = red_replace(blk.body)
    /\ idx' = 0 /\ res' = <<>> /\ ni' = 0 /\ out' = <<>>
    /\ pc' = IF blk.hash = None THEN "nohash" ELSE "scan"
    /\ UNCHANGED <<md_text, blocks, body_html_parts, body_html, sub, content_html,
                   TocVars>>

\* the section of a block that has no hash
NoHashSection ==
    /\ pc = "nohash"
    /\ body_html_parts' =
           Append(body_html_parts, SecNoHashOpen \o render_paragraphs(b) \o SecClose)
    /\ pc' = "block"
    /\ UNCHANGED <<md_text, blocks, body_html, b, idx, res, ni, out, sub, content_html,
                   TocVars>>

\* one pass through the while loop of find_tag_blocks
ScanIter ==
    /\ pc = "scan"
    /\ idx < Len(b)
    /\ LET st == FindIter(b, idx, res)
       IN  /\ idx' = st.idx
           /\ res' = st.res
           /\ pc' = IF st.brk THEN "render" ELSE "scan"
    /\ UNCHANGED <<md_text, blocks, body_html_parts, body_html, b, ni, out, sub,
                   content_html, TocVars>>

\* the while condition fails: find_tag_blocks returns res
ScanReturn ==
    /\ pc = "scan"
    /\ idx >= Len(b)
    /\ pc' = "render"
    /\ UNCHANGED <<md_text, blocks, body_html_parts, body_html, b, idx, res, ni, out,
                   sub, content_html, TocVars>>

\* one pass through the for loop of render_tag_sequence; an exception leaves
\* render_tag_sequence and build_html
RenderIter ==
    /\ pc = "render"
    /\ ni < Len(res)
    /\ LET node == res[ni + 1]
           r    == RenderNode(node)
       IN  /\ sub' = IF LowerStr(node.type) = T_smain
                     THEN find_tag_blocks(Strip(node.content)) ELSE sub
           /\ IF r.ok
              THEN /\ out' = out \o r.frags
                   /\ ni' = ni + 1
                   /\ pc' = "render"
              ELSE /\ pc' = "raised"
                   /\ UNCHANGED <<out, ni>>
    /\ UNCHANGED <<md_text, blocks, body_html_parts, body_html, b, idx, res,
                   content_html, TocVars>>

\* render_tag_sequence returns '\n'.join(out)
RenderReturn ==
    /\ pc = "render"
    /\ ni = Len(res)
    /\ content_html' = Join(<<"\n">>, out)
    /\ pc' = "section"
    /\ UNCHANGED <<md_text, blocks, body_html_parts, body_html, b, idx, res, ni, out,
                   sub, TocVars>>

\* the section of a block that has a hash
HashSection ==
    /\ pc = "section"
    /\ body_html_parts' =
           Append(body_html_parts,
                  SecIdOpen \o escape(blk.hash) \o SecIdMid \o escape(blk.hash)
                  \o H1Close \o content_html \o SecClose)
    /\ pc' = "block"
    /\ UNCHANGED <<md_text, blocks, body_html, b, idx, res, ni, out, sub, content_html,
                   TocVars>>

\* body_html = '\n'.join(body_html_parts)
JoinBody ==
    /\ pc = "block"
    /\ Len(body_html_parts) = Len(blocks)
    /\ body_html' = Join(<<"\n">>, body_html_parts)
    /\ pc' = "done"
    /\ UNCHANGED <<md_text, blocks, body_html_parts, b, idx, res, ni, out, sub,
                   content_html, TocVars>>

Next ==
    \/ SplitDocument \/ RedReplaceBody \/ NoHashSection
    \/ ScanIter \/ ScanReturn \/ RenderIter \/ RenderReturn
    \/ HashSection \/ JoinBody

Spec == Init /\ [][Next]_vars

----------------------------------------------------------------------------
(* Properties of the scanner *)

\* s is [tag]content[-]: one or more tag characters between the first
\* brackets, and a content that holds no opening marker and no [-]
SpanEnd(s) == Min({e \in 1 .. Len(s) : s[e] = "]"} \cup {Len(s) + 1})

SpanTag(s) == SubSeq(s, 2, SpanEnd(s) - 1)

SpanContent(s) == SubSeq(s, SpanEnd(s) + 1, Len(s) - Len(CloseMark))

WellFormedSpan(s) ==
    /\ Len(s) >= 6
    /\ s[1] = "["
    /\ SpanEnd(s) > 2
    /\ SpanEnd(s) <= Len(s) - Len(CloseMark)
    /\ \A k \in 2 .. (SpanEnd(s) - 1) : s[k] \in TagChar
    /\ SubSeq(s, Len(s) - 2, Len(s)) = CloseMark
    /\ ~HasMarker(SpanContent(s))

\* find_tag_blocks(b) has returned
Scanned == pc \in {"render", "section", "raised"}

\* C6: the scan of a well-formed span [tag]content[-] is exactly one node, of
\* the tag's name with its case kept, whose content is the interior trimmed
\* (the empty string when the interior is empty or blank).
C6_SpanYieldsOneNode ==
    (Scanned /\ WellFormedSpan(b)) =>
        res = <<Node(SpanTag(b), Strip(SpanContent(b)))>>

\* a span whose interior is blank but not empty has been scanned
C6_Witness ==
    /\ Scanned /\ WellFormedSpan(b)
    /\ SpanContent(b) # <<>> /\ IsBlank(SpanContent(b))
    /\ res[1].content = <<>>

\* C7: every pass through the scan loop either leaves the loop or moves the
\* position strictly forward, and never past the end of the span.
C7_ScanAdvances ==
    [][(pc = "scan" /\ idx < Len(b)) =>
           (pc' # "scan" \/ (idx' > idx /\ idx' <= Len(b)))]_vars

\* the scan has taken [-] itself for an opening marker and is still going
C7_Witness ==
    /\ pc = "scan" /\ idx > 0 /\ idx < Len(b)
    /\ res # <<>> /\ res[Len(res)].type = <<"-">>

\* nodes is at most one text node, then at most one node for a tag of c that
\* has no closing marker
AtMostTextThenTag(c, nodes) ==
    LET m == tag_search(c, 0)
    IN  /\ Len(nodes) <= 2
        /\ Len(nodes) = 2 => (m > 0 /\ nodes[1] = Node(TextType, Strip(Slice(c, 0, m))))
        /\ (Len(nodes) >= 1 /\ m >= 0) =>
               nodes[Len(nodes)].content = Strip(Slice(c, TagRunEnd(c, m + 1) + 1, Len(c)))
        /\ (Len(nodes) >= 1 /\ m < 0) => nodes = <<Node(TextType, Strip(c))>>

\* C9: no emitted node's content holds a [-]; scanning that content again gives
\* at most a text node followed by one unterminated tag node; so the nested scan
\* of a section has at most one tagged child.
C9_RescanAtMostTwo ==
    /\ \A k \in 1 .. Len(res) :
          /\ ~Contains(res[k].content, CloseMark)
          /\ AtMostTextThenTag(res[k].content, find_tag_blocks(res[k].content))
    /\ Len(sub) <= 2
    /\ Len(sub) = 2 => sub[1].type = TextType

\* a section has been rendered as a container of a text and a tagged child
C9_Witness ==
    /\ pc = "render" /\ ni >= 1
    /\ LowerStr(res[ni].type) = T_smain
    /\ Len(sub) = 2 /\ HasStructuralChild(sub)

----------------------------------------------------------------------------
(* Properties of the renderer.  A node is judged in the state that follows  *)
(* its pass through the loop: it is res[ni], and what it appended ends out. *)

Rendered == pc = "render" /\ ni >= 1

\* the last n fragments of out
LastFrags(n) == SubSeq(out, Len(out) - n + 1, Len(out))

ImageFields(t)   == IF t = T_cardT THEN {"img"} ELSE {"img1", "img2"}
CaptionFields(t) == IF t = T_cardT THEN {"txt"} ELSE {"txt1", "txt2"}

\* j is not a payload of the shape tag t expects: unparsable, or no object,
\* or an image field that is no object, or a path or caption that is no string
Malformed(t, j) ==
    \/ j.k # "obj"
    \/ \E f \in ImageFields(t) \cap DOMAIN j.v :
          \/ j.v[f].k # "obj"
          \/ "path" \in DOMAIN j.v[f].v /\ j.v[f].v["path"].k # "str"
    \/ \E f \in CaptionFields(t) \cap DOMAIN j.v : j.v[f].k # "str"

ErrOpen(t) == IF t = T_cardT THEN ErrCardOpen ELSE ErrBannerOpen

IsPayloadNode(n) == n.type \in {T_cardT, T_bannerT2}

\* the texts given to json.loads are those of JsonTable
PayloadsKnown ==
    /\ \A k \in 1 .. Len(res) : IsPayloadNode(res[k]) => InTable(Strip(res[k].content))
    /\ \A k \in 1 .. Len(sub) : IsPayloadNode(sub[k]) => InTable(sub[k].content)

\* C2: a bannerT2 or cardT node whose content is no well-formed payload is
\* rendered as the error fragment holding the escaped raw content, and no
\* exception leaves the renderer.
C2_MalformedPayloadDegrades ==
    /\ pc # "raised"
    /\ \A k \in 1 .. Len(res) :
          (/\ k <= ni
           /\ IsPayloadNode(res[k])
           /\ Malformed(res[k].type, json_loads(Strip(res[k].content)))) =>
              \E i \in 1 .. Len(out) :
                  out[i] = ErrOpen(res[k].type) \o escape(Strip(res[k].content)) \o DivClose

\* the children of a section that the claim counts as structural
IsStructural(x) == x.type \in StructuralTypes

\* the rendering of a section as a container of the children s
Container(s) ==
    LET f    == FirstTextNode(s)
        open == IF f # 0
                THEN SmainH2Open \o escape(SplitLines(Strip(s[f].content))[1]) \o H2Close
                ELSE SmainOpen
    IN  <<open>> \o [k \in 1 .. Len(s) |-> RenderChild(s[k]).html] \o <<DivClose>>

\* C3: a section whose nested scan holds a subtitle1, subtitle2, main,
\* bannerT2 or cardT child is rendered as a container: the wrapper, every
\* child by its own rule, the closing tag.
C3_StructuralChildMakesContainer ==
    (/\ Rendered
     /\ LowerStr(res[ni].type) = T_smain
     /\ \E k \in 1 .. Len(sub) : IsStructural(sub[k])) =>
        /\ Len(out) >= Len(sub) + 2
        /\ LastFrags(Len(sub) + 2) = Container(sub)

Recognized(t) ==
    \/ LowerStr(t) \in {T_smain, T_main, T_subtitle1, T_subtitle2}
    \/ t \in {T_bannerT2, T_cardT, TextType}

OneLine(c) == ~Contains(c, <<"\n">>)

\* the node's markers put back around its content
Rewrapped(n) == Bracket(n.type) \o Strip(n.content) \o CloseMark

\* some [red+] of s has a [red-] after it
HasRedPair(s) ==
    LET o == Find(s, RedOpen, 0)
    IN  o >= 0 /\ Find(s, RedClose, o + Len(RedOpen)) >= 0

\* C4 as stated: a top-level node of an unrecognized type is emitted as
\* [type] + content + [-] with the content HTML-escaped.
C4_UnknownTagEscaped ==
    (Rendered /\ ~Recognized(res[ni].type) /\ OneLine(res[ni].content)) =>
        out[Len(out)] = POpen \o Bracket(res[ni].type)
                        \o escape(Strip(res[ni].content)) \o CloseMark \o PClose

\* C4 amended: a top-level node of an unrecognized type always appends a
\* non-empty fragment, and where [type] + content + [-] is one line with no
\* [red+]...[red-] pair the fragment is that very text, unescaped, in <p>.
C4_UnknownTagVerbatim ==
    (Rendered /\ ~Recognized(res[ni].type)) =>
        /\ out # <<>>
        /\ StartsAt(out[Len(out)], 0, POpen)
        /\ Len(out[Len(out)]) > Len(POpen) + Len(PClose)
        /\ (OneLine(res[ni].content) /\ ~HasRedPair(Rewrapped(res[ni]))) =>
              out[Len(out)] = POpen \o Rewrapped(res[ni]) \o PClose

\* an unknown tag whose content holds < and & has been rendered
C4_Witness ==
    /\ Rendered /\ ~Recognized(res[ni].type)
    /\ Contains(res[ni].content, <<"<">>) /\ Contains(res[ni].content, <<"&">>)
    /\ OneLine(res[ni].content)

AmpTwice == <<"&", "a", "m", "p", ";", "a", "m", "p", ";">>

\* C5: no text of a matched [red+]...[red-] span is escaped twice on the way
\* to the rendered block.  (The bodies hold & but never the text amp; so
\* &amp;amp; in the result is an & that was escaped twice.)
C5_RedTextEscapedOnce ==
    (pc = "section" /\ Contains(b, SpanOpen)) => ~Contains(content_html, AmpTwice)

----------------------------------------------------------------------------
(* Properties of the document splitter *)

\* the tokens of the header lines of md, in file order: a header line is a
\* line that the header pattern matches on its own
RECURSIVE HeaderTokensOf(_)
HeaderTokensOf(lines) ==
    IF lines = <<>> THEN <<>>
    ELSE LET ln == Head(lines)
             m  == HashMatch(ln, 0)
         IN  (IF m.ok THEN <<Slice(ln, m.gs, m.ge)>> ELSE <<>>)
             \o HeaderTokensOf(Tail(lines))

HeaderTokens(md) == HeaderTokensOf(SplitLines(md))

\* section is the section labeled with the hash h
IsSectionOf(section, h) ==
    StartsAt(section, 0, SecIdOpen \o escape(h) \o SecIdMid \o escape(h) \o H1Close)

\* C1: the rendered output has exactly one hash-labeled section for each
\* header line of the document, in the reverse of file order, whether or not
\* text precedes the first header.
C1_SectionPerHeaderReversed ==
    (pc = "done" /\ HeaderTokens(md_text) # <<>>) =>
        LET hs == Reverse(HeaderTokens(md_text))
        IN  /\ Len(body_html_parts) = Len(hs)
            /\ \A k \in 1 .. Len(hs) : IsSectionOf(body_html_parts[k], Take7(hs[k]))

----------------------------------------------------------------------------
(* build_toc.  The headings are given by their levels, in document order;   *)
(* heading i (from 0) has the title and the anchor of item i.  A fragment   *)
(* appended to toc_html is recorded by its kind, the level and the index it *)
(* carries:                                                                 *)
(*   nav_open   <nav class="toc"><strong>..</strong><ul>                    *)
(*   li_top     <li class="toc-l{lvl}"><a .. data-toc-index="{i}" ..>..</a> *)
(*   sub_open   <ul class="toc-sub" style="display:none;">                  *)
(*   li_sub     <li class="toc-l{lvl}"><a .. data-toc-index="{i}" ..>..</a></li> *)
(*   ul_close   </ul>                                                       *)
(*   nav_close  </ul></nav>                                                 *)

MaxHeadings == 5

\* soup.find_all(['h1', 'h2', 'h3']): the levels a heading can have
HeadingLevels == {1, 2, 3}

Frag(kind, lvl, i) == [kind |-> kind, lvl |-> lvl, i |-> i]

NavOpen  == Frag("nav_open", 0, 0)
SubOpen  == Frag("sub_open", 0, 0)
UlClose  == Frag("ul_close", 0, 0)
NavClose == Frag("nav_close", 0, 0)

\* stack holds references to the one list toc_html
TocRef == "toc_html"

\* IsTopLevel, were only level 2 taken for a top-level entry
IsTopLevel_only2(lvl) == lvl = 2

\* if lvl == 1 or lvl == 2
IsTopLevel(lvl) == lvl = 1 \/ lvl = 2

\* elif lvl == 3 or lvl == 4
IsSubLevel(lvl) == lvl = 3 \/ lvl = 4

TocState(th, st, ll) == [toc_html |-> th, stack |-> st, last_level |-> ll, exc |-> ""]

IndexError == [toc_html |-> <<>>, stack |-> <<>>, last_level |-> 0, exc |-> "IndexError"]

Pop(st) == SubSeq(st, 1, Len(st) - 1)

\* while last_level > 2: stack[-1].append("</ul>"); stack.pop(); last_level -= 1
RECURSIVE CloseSubLists(_, _, _)
CloseSubLists(th, st, ll) ==
    IF ll > 2
    THEN IF st = <<>> THEN IndexError
         ELSE CloseSubLists(Append(th, UlClose), Pop(st), ll - 1)
    ELSE TocState(th, st, ll)

\* the branch of the loop body for a heading of level 1 or 2
TopItem(th, st, ll, lvl, i, levels) ==
    LET c == CloseSubLists(th, st, ll)
    IN  IF c.exc # "" \/ c.stack = <<>> THEN IndexError
        ELSE LET th1 == Append(c.toc_html, Frag("li_top", lvl, i))
             IN  IF i + 1 < Len(levels) /\ levels[i + 2] > 2
                 THEN TocState(Append(th1, SubOpen), Append(c.stack, c.stack[1]), 3)
                 ELSE TocState(th1, c.stack, c.last_level)

\* the branch of the loop body for a heading of level 3 or 4
SubItem(th, st, ll, lvl, i, levels) ==
    IF st = <<>> THEN IndexError
    ELSE LET th1 == Append(th, Frag("li_sub", lvl, i))
         IN  IF i + 1 >= Len(levels) \/ levels[i + 2] <= 2
             THEN TocState(Append(th1, UlClose), Pop(st), 2)
             ELSE TocState(th1, st, ll)

\* the body of the for loop, for item i (from 0)
TocLoopBody(th, st, ll, i, levels) ==
    LET lvl == levels[i + 1]
    IN  IF IsTopLevel(lvl) THEN TopItem(th, st, ll, lvl, i, levels)
        ELSE IF IsSubLevel(lvl) THEN SubItem(th, st, ll, lvl, i, levels)
        ELSE TocState(th, st, ll)

\* while last_level > 1: stack[0].append("</ul>"); last_level -= 1
RECURSIVE CloseRemaining(_, _, _)
CloseRemaining(th, st, ll) ==
    IF ll > 1
    THEN IF st = <<>> THEN IndexError
         ELSE CloseRemaining(Append(th, UlClose), st, ll - 1)
    ELSE TocState(th, st, ll)

InitToc ==
    /\ toc \in UNION {[1 .. n -> HeadingLevels] : n \in 0 .. MaxHeadings}
    /\ pc = "toc"
    /\ toc_html = <<NavOpen>>
    /\ last_level = 1
    /\ stack = <<TocRef>>
    /\ ti = 0
    /\ md_text = <<>> /\ blocks = <<>> /\ body_html_parts = <<>> /\ body_html = <<>>
    /\ b = <<>> /\ idx = 0 /\ res = <<>> /\ ni = 0 /\ out = <<>> /\ sub = <<>>
    /\ content_html = <<>>

HtmlVars == <<md_text, blocks, body_html_parts, body_html, b, idx, res, ni, out,
              sub, content_html>>

\* one pass through the for loop of build_toc
TocItem ==
    /\ pc = "toc" /\ ti < Len(toc)
    /\ LET r == TocLoopBody(toc_html, stack, last_level, ti, toc)
       IN  IF r.exc # ""
           THEN pc' = "raised" /\ UNCHANGED <<toc_html, stack, last_level, ti>>
           ELSE /\ toc_html' = r.toc_html /\ stack' = r.stack
                /\ last_level' = r.last_level
                /\ ti' = ti + 1 /\ pc' = pc
    /\ UNCHANGED <<toc, HtmlVars>>

\* after the loop: the open lists are closed and the navigation ends
TocFinish ==
    /\ pc = "toc" /\ ti = Len(toc)
    /\ LET r == CloseRemaining(toc_html, stack, last_level)
       IN  IF r.exc # ""
           THEN pc' = "raised" /\ UNCHANGED <<toc_html, stack, last_level>>
           ELSE /\ toc_html' = Append(r.toc_html, NavClose)
                /\ stack' = r.stack /\ last_level' = r.last_level
                /\ pc' = "done"
    /\ UNCHANGED <<toc, ti, HtmlVars>>

NextToc == TocItem \/ TocFinish

SpecToc == InitToc /\ [][NextToc]_vars

----------------------------------------------------------------------------
(* Properties of the table of contents *)

\* the positions in th of the top-level entries
TopEntries(th) == {k \in 1 .. Len(th) : th[k].kind = "li_top"}

\* the position of the n-th top-level entry
NthTop(th, n) ==
    CHOOSE k \in TopEntries(th) : Cardinality({j \in TopEntries(th) : j <= k}) = n

\* the fragments between the top-level entry at k and the next one
EntryRange(th, k) ==
    (k + 1) .. (Min({j \in TopEntries(th) : j > k} \cup {Len(th) + 1}) - 1)

SubItems(th, k) == {j \in EntryRange(th, k) : th[j].kind = "li_sub"}

HasSubList(th, k) == \E j \in EntryRange(th, k) : th[j].kind \in {"sub_open", "li_sub"}

\* the entry at k is followed by a sub-list of n items, opened hidden
HasHiddenSubList(th, k, n) ==
    /\ k + 1 \in EntryRange(th, k) /\ th[k + 1] = SubOpen
    /\ Cardinality(SubItems(th, k)) = n
    /\ \A j \in SubItems(th, k) : j \in (k + 2) .. (k + 1 + n)

Levels12332 == <<1, 2, 3, 3, 2>>

\* C8 as stated: headings at levels [1,2,3,3,2] give two top-level entries,
\* the first with a hidden sub-list of two items, the second with none.
C8_TwoTopEntries ==
    (pc = "done" /\ toc = Levels12332) =>
        /\ Cardinality(TopEntries(toc_html)) = 2
        /\ HasHiddenSubList(toc_html, NthTop(toc_html, 1), 2)
        /\ ~HasSubList(toc_html, NthTop(toc_html, 2))

\* C8 amended: headings at levels [1,2,3,3,2] give three top-level entries,
\* for the headings of levels 1, 2 and 2; the second has a hidden sub-list of
\* two items, the first and the third have none.
C8_ThreeTopEntries ==
    (pc = "done" /\ toc = Levels12332) =>
        /\ Cardinality(TopEntries(toc_html)) = 3
        /\ [n \in 1 .. 3 |-> toc_html[NthTop(toc_html, n)].lvl] = <<1, 2, 2>>
        /\ ~HasSubList(toc_html, NthTop(toc_html, 1))
        /\ HasHiddenSubList(toc_html, NthTop(toc_html, 2), 2)
        /\ ~HasSubList(toc_html, NthTop(toc_html, 3))

\* the navigation for headings at levels [1,2,3,3,2] has been built
C8_Witness ==
    /\ pc = "done" /\ toc = Levels12332
    /\ \E k \in 1 .. Len(toc_html) : toc_html[k] = SubOpen

\* the <ul openings and the </ul> closings held by the fragments of th
UlOpenings(th) == Cardinality({k \in 1 .. Len(th) : th[k].kind \in {"nav_open", "sub_open"}})

UlClosings(th) == Cardinality({k \in 1 .. Len(th) : th[k].kind \in {"ul_close", "nav_close"}})

\* C10: the navigation build_toc emits is balanced: it holds as many </ul>
\* closings as <ul openings, whether or not a sub-list was opened and closed
\* before the end of the headings.
C10_NavigationBalanced ==
    pc = "done" => UlClosings(toc_html) = UlOpenings(toc_html)

====
